---- MODULE Spec2Model ----
(***************************************************************************)
(* A model of the Sentinel SRE agent: the Docker tool server                *)
(* (servers/ops_server.py), the decision policy (modules/rca_brain.py,      *)
(* agents/sentinel_agent.py), the /analyze request handler (api_server.py)  *)
(* and the offline calibration job (modules/train_brain.py).                *)
(*                                                                         *)
(* The language models (the orchestrating agent's and the policy's) and the *)
(* Docker daemon are outside the program: what they answer is an input,     *)
(* drawn from small sets.  Everything the program does with those answers   *)
(* is translated from the source.                                           *)
(***************************************************************************)
EXTENDS Integers, Sequences, FiniteSets, TLC

(***************************************************************************)
(* Bounds of the model.                                                     *)
(***************************************************************************)
\* tool calls the orchestrating agent may make within one turn
MaxToolCalls == 2
\* /analyze requests accepted over a run
MaxRequests == 3
\* runs of the calibration job
MaxCompiles == 2
\* starts of a serving process (runs of load_production_weights)
MaxLoads == 1

(***************************************************************************)
(* Values.                                                                  *)
(***************************************************************************)
\* the two concurrently served /analyze requests (handler coroutines)
Handlers == {"h1", "h2"}

Users == {"api_user_01"}
SessionIds == {"session_001", "incident_123"}
SessionKeys == Users \X SessionIds
Queries == {"Check logs for chaos-monkey and fix any critical errors."}

\* container names the agent may pass to a tool
Containers == {"chaos-monkey", "ghost"}

\* the enumerated action labels of a Decision
Actions == {"restart_service", "escalate", "ignore", "none"}
\* what the policy's language model may put in suggested_action: the field is
\* free text (dspy.OutputField), so a label outside the enumeration is possible
ModelActions == Actions \cup {"reboot_host"}
Severities == {"LOW", "HIGH", "CRITICAL"}

\* log lines a container may hold
RemoteFailureLogs == <<"CRITICAL: Database Connection Refused to 192.168.1.50:5432">>
InfoLogs == <<"INFO: Rendered page in 20ms.", "INFO: Cache hit.">>
LogContents == {<< >>, RemoteFailureLogs, InfoLogs}
\* values of the tail argument (50 is the default)
Tails == {1, 50}

(***************************************************************************)
(* The Docker runtime as the tool server sees it.  Each tool call draws a   *)
(* fault: "none"; "get" (containers.list / containers.get raises an         *)
(* APIError); "op" (container.logs / container.restart raises an APIError); *)
(* "decode" (the log bytes are not valid UTF-8).                            *)
(***************************************************************************)
Faults == {"none", "get", "op", "decode"}
APIErrorText == "500 Server Error: Internal Server Error"
DecodeErrorText == "'utf-8' codec can't decode byte 0xff in position 0: invalid start byte"
NoSuchContainerText(name) == "404 Client Error: Not Found (No such container: " \o name \o ")"

ShortId(name) == IF name = "chaos-monkey" THEN "3f2a9c1b7d" ELSE "0000000000"

InSeq(x, s) == \E i \in 1..Len(s) : s[i] = x

\* an outcome of a try block: a value, or an exception with its class and str(e)
Value(text, calls) == [kind |-> "value", exc |-> "", text |-> text, runtime |-> calls]
Exc(class, msg, calls) == [kind |-> "exc", exc |-> class, text |-> msg, runtime |-> calls]

\* what a tool hands back to its caller: a returned string or a raised exception;
\* runtime lists the Docker client methods the call invoked, exc the class of the
\* exception the runtime raised in it ("" when none)
Return(text, calls, exc) == [kind |-> "return", text |-> text, runtime |-> calls, exc |-> exc]
\* (no tool raises as written; Raise is what a tool without its except would do)
Raise(b) == [kind |-> "raise", text |-> b.text, runtime |-> b.runtime, exc |-> b.exc]
Unavailable == Return("Error: Docker unavailable.", << >>, "")

\* one line per container; containers.list() gives the running ones
RECURSIVE ReportLines(_)
ReportLines(cs) ==
    IF cs = << >> THEN ""
    ELSE "- " \o Head(cs) \o " (ID: " \o ShortId(Head(cs)) \o "): running\n" \o ReportLines(Tail(cs))

\* the try block of list_active_containers
ListBody(running, fault) ==
    IF fault = "get" THEN Exc("APIError", APIErrorText, <<"containers.list">>)
    ELSE IF running = << >> THEN Value("No active containers found.", <<"containers.list">>)
    ELSE Value("ACTIVE CONTAINERS:\n" \o ReportLines(running), <<"containers.list">>)

list_active_containers(client, running, fault) ==
    IF client = "absent" THEN Unavailable
    ELSE LET b == ListBody(running, fault) IN
         IF b.kind = "value" THEN Return(b.text, b.runtime, "")
         ELSE Return("Docker Error: " \o b.text, b.runtime, b.exc)

\* container.logs(tail=n).decode('utf-8'): the last n lines, joined
LastLines(lines, n) ==
    IF Len(lines) <= n THEN lines ELSE SubSeq(lines, Len(lines) - n + 1, Len(lines))

RECURSIVE JoinLines(_)
JoinLines(lines) ==
    IF lines = << >> THEN "" ELSE Head(lines) \o "\n" \o JoinLines(Tail(lines))

\* the try block of get_container_logs
LogsBody(name, tail, running, fault, content) ==
    IF fault = "get" THEN Exc("APIError", APIErrorText, <<"containers.get">>)
    ELSE IF ~InSeq(name, running)
         THEN Exc("NotFound", NoSuchContainerText(name), <<"containers.get">>)
    ELSE IF fault = "op" THEN Exc("APIError", APIErrorText, <<"containers.get", "logs">>)
    ELSE IF fault = "decode"
         THEN Exc("UnicodeDecodeError", DecodeErrorText, <<"containers.get", "logs">>)
    ELSE LET logs == JoinLines(LastLines(content, tail)) IN
         Value(IF logs = "" THEN "Logs are empty." ELSE logs, <<"containers.get", "logs">>)

\* get_container_logs without its except clauses
get_container_logs_noexcept(client, name, tail, running, fault, content) ==
    IF client = "absent" THEN Unavailable
    ELSE LET b == LogsBody(name, tail, running, fault, content) IN
         IF b.kind = "value" THEN Return(b.text, b.runtime, "") ELSE Raise(b)

get_container_logs(client, name, tail, running, fault, content) ==
    IF client = "absent" THEN Unavailable
    ELSE LET b == LogsBody(name, tail, running, fault, content) IN
         IF b.kind = "value" THEN Return(b.text, b.runtime, "")
         ELSE IF b.exc = "NotFound"
              THEN Return("Error: Container '" \o name \o "' not found.", b.runtime, b.exc)
         ELSE Return("System Error: " \o b.text, b.runtime, b.exc)

\* the try block of restart_service
RestartBody(name, running, fault) ==
    IF fault = "get" THEN Exc("APIError", APIErrorText, <<"containers.get">>)
    ELSE IF ~InSeq(name, running)
         THEN Exc("NotFound", NoSuchContainerText(name), <<"containers.get">>)
    ELSE IF fault = "op" THEN Exc("APIError", APIErrorText, <<"containers.get", "restart">>)
    \* (the returned text starts with a check-mark emoji, left out here)
    ELSE Value("Service '" \o name \o "' restarted successfully.", <<"containers.get", "restart">>)

restart_service(client, name, running, fault) ==
    IF client = "absent" THEN Unavailable
    ELSE LET b == RestartBody(name, running, fault) IN
         IF b.kind = "value" THEN Return(b.text, b.runtime, "")
         ELSE Return("Restart Failed: " \o b.text, b.runtime, b.exc)

(***************************************************************************)
(* The decision policy.  The language model's answer to one policy call is  *)
(* an input: a prediction with four free-text fields, or a failed call.     *)
(***************************************************************************)
Reasonings == {"The logs show a connection failure to a remote host."}
RootCauses == {"OOMKilled", "Remote dependency down"}

Predictions ==
    [kind : {"prediction"}, reasoning : Reasonings, root_cause : RootCauses,
     severity : Severities, suggested_action : ModelActions]
LMFailure ==
    [kind |-> "raise", reasoning |-> "", root_cause |-> "", severity |-> "",
     suggested_action |-> ""]
LMAnswers == Predictions \cup {LMFailure}

\* SREBrain.forward: the ChainOfThought program's answer, as it comes
SREBrain_forward(container_name, logs, lm) == lm

NoDecision == [analysis |-> "", root_cause |-> "", severity |-> "", recommended_action |-> ""]

\* the result of a tool call as the orchestrator sees it
ToolResult(tool, container, r) ==
    [tool |-> tool, container |-> container, kind |-> r.kind, text |-> r.text,
     runtime |-> r.runtime, exc |-> r.exc, decision |-> NoDecision]
NoResult ==
    [tool |-> "", container |-> "", kind |-> "", text |-> "", runtime |-> << >>,
     exc |-> "", decision |-> NoDecision]

\* consult_sre_expert catching the policy call's failure and answering "ignore"
consult_sre_expert_fallback(container_name, logs, lm) ==
    [tool |-> "consult_sre_expert", container |-> container_name, kind |-> "return",
     text |-> "", runtime |-> << >>, exc |-> "",
     decision |-> IF lm.kind = "raise"
                  THEN [analysis |-> "", root_cause |-> "", severity |-> "LOW",
                        recommended_action |-> "ignore"]
                  ELSE [analysis |-> lm.reasoning, root_cause |-> lm.root_cause,
                        severity |-> lm.severity,
                        recommended_action |-> lm.suggested_action]]

\* consult_sre_expert: the prediction's fields copied into a dict; an exception
\* of the policy call is not caught
consult_sre_expert(container_name, logs, lm) ==
    LET prediction == SREBrain_forward(container_name, logs, lm) IN
    IF prediction.kind = "raise"
    THEN [tool |-> "consult_sre_expert", container |-> container_name, kind |-> "raise",
          text |-> "model call failed", runtime |-> << >>, exc |-> "", decision |-> NoDecision]
    ELSE [tool |-> "consult_sre_expert", container |-> container_name, kind |-> "return",
          text |-> "", runtime |-> << >>, exc |-> "",
          decision |-> [analysis |-> prediction.reasoning,
                        root_cause |-> prediction.root_cause,
                        severity |-> prediction.severity,
                        recommended_action |-> prediction.suggested_action]]

\* the log text the agent may pass to consult_sre_expert
LogTexts == {JoinLines(RemoteFailureLogs), JoinLines(InfoLogs)}

(***************************************************************************)
(* The tool calls the orchestrating agent's model may ask for.              *)
(***************************************************************************)
NoCall == [tool |-> "", container |-> "", tail |-> 0, logs |-> ""]
GatewayCalls ==
    {[tool |-> "list_active_containers", container |-> "", tail |-> 0, logs |-> ""]}
    \cup [tool : {"get_container_logs"}, container : Containers, tail : Tails, logs : {""}]
    \cup [tool : {"restart_service"}, container : Containers, tail : {0}, logs : {""}]
PolicyCalls ==
    [tool : {"consult_sre_expert"}, container : Containers, tail : {0}, logs : LogTexts]

(***************************************************************************)
(* The session service (InMemorySessionService, a library): create_session  *)
(* on a key it already holds raises and leaves the store alone, which is    *)
(* what the handler's comments say of it ("Session exists, no problem").    *)
(***************************************************************************)
create_session(store, key) ==
    IF key \in DOMAIN store
    THEN [kind |-> "raise", store |-> store]
    ELSE [kind |-> "return", store |-> [k \in DOMAIN store \cup {key} |->
                                          IF k = key THEN << >> ELSE store[k]]]

\* the create_session call without the try/except around it
EnsureSession_noexcept(store, key) == create_session(store, key)

\* analyze_incident, lines 76-83: the create_session call in its own try/except
EnsureSession(store, key) ==
    LET c == create_session(store, key) IN
    [kind |-> "return", store |-> c.store]

Requests == [user_id : Users, session_id : SessionIds, query : Queries]
NoRequest == [user_id |-> "", session_id |-> "", query |-> ""]
KeyOf(request) == <<request.user_id, request.session_id>>

NoReply == [status |-> "", code |-> 0, session_id |-> "", response |-> ""]
Success(request, text) ==
    [status |-> "success", code |-> 200, session_id |-> request.session_id, response |-> text]
\* raise HTTPException(status_code=500, detail=str(e))
Failure(detail) == [status |-> "error", code |-> 500, session_id |-> "", response |-> detail]

FinalText == "Final status report."

(***************************************************************************)
(* The calibration job (modules/train_brain.py) and the file it leaves for  *)
(* the policy, modules/brain_compiled.json.                                 *)
(***************************************************************************)
trainset ==
    << [container_name |-> "production-db",
        logs |-> "FATAL: Password authentication failed for user 'admin'. Connection closed.",
        reasoning |-> "The logs show a clear authentication failure.",
        root_cause |-> "Auth Failure", severity |-> "CRITICAL",
        suggested_action |-> "escalate"],
       [container_name |-> "frontend-ui",
        logs |-> "INFO: Rendered page in 20ms. INFO: Cache hit.",
        reasoning |-> "All logs are INFO level. No errors detected.",
        root_cause |-> "None", severity |-> "LOW",
        suggested_action |-> "none"],
       [container_name |-> "worker-node",
        logs |-> "Error: Java heap space. java.lang.OutOfMemoryError. Terminating process.",
        reasoning |-> "The application ran out of memory and crashed.",
        root_cause |-> "OOMKilled", severity |-> "HIGH",
        suggested_action |-> "restart_service"] >>

\* BootstrapFewShot(metric=validate_answer, max_bootstrapped_demos=2)
max_bootstrapped_demos == 2

\* validate_answer with the root cause compared as well
validate_answer_rootCause(example, prediction) ==
    /\ example.severity = prediction.severity
    /\ example.suggested_action = prediction.suggested_action
    /\ example.root_cause = prediction.root_cause

validate_answer(example, prediction) ==
    /\ example.severity = prediction.severity
    /\ example.suggested_action = prediction.suggested_action

\* a kept demonstration: the example's inputs with the prediction's outputs
Demo(example, prediction) ==
    [container_name |-> example.container_name, logs |-> example.logs,
     reasoning |-> prediction.reasoning, root_cause |-> prediction.root_cause,
     severity |-> prediction.severity, suggested_action |-> prediction.suggested_action]
NoDemo ==
    [container_name |-> "", logs |-> "", reasoning |-> "", root_cause |-> "",
     severity |-> "", suggested_action |-> ""]

\* what the optimizer hands its metric: a labelled example and predictions of
\* the policy for it.  Severity and action are free text in a prediction, so
\* the labels in another case and the label "none" of the training set occur.
MetricReasonings == Reasonings \cup {trainset[1].reasoning}
MetricRootCauses == {"OOMKilled", "Auth Failure"}
MetricSeverities == Severities \cup {"critical"}
MetricActions == ModelActions \cup {"none"}
MetricPredictions ==
    [kind : {"prediction"}, reasoning : MetricReasonings,
     root_cause : MetricRootCauses, severity : MetricSeverities,
     suggested_action : MetricActions]
NoMetric ==
    [example |-> NoDemo, predictions |-> << >>, results |-> << >>]

\* the saved document, as the pieces a writer puts out one after the other: an
\* opening, one piece per demonstration, a closing
Piece(tag, demo) == [tag |-> tag, demo |-> demo]
Serialize(ds) ==
    <<Piece("open", NoDemo)>> \o [i \in 1..Len(ds) |-> Piece("demo", ds[i])]
        \o <<Piece("close", NoDemo)>>

\* a document parses when it is whole: opened and closed
Parses(content) ==
    /\ Len(content) >= 2
    /\ content[1].tag = "open"
    /\ content[Len(content)].tag = "close"
Deserialize(content) == [i \in 1..(Len(content) - 2) |-> content[i + 1].demo]

NoFile == [exists |-> FALSE, content |-> << >>]
NothingRead == [read |-> FALSE, content |-> << >>]
ZeroShot == [loaded |-> FALSE, demos |-> << >>]

os_path_exists(f) == f.exists

\* Module.load(filepath): the file read and parsed, the demonstrations installed;
\* a missing or unparsable file raises
load(f) ==
    IF f.exists /\ Parses(f.content)
    THEN [kind |-> "return", brain |-> [loaded |-> TRUE, demos |-> Deserialize(f.content)]]
    ELSE [kind |-> "raise", brain |-> ZeroShot]

(***************************************************************************)
(* State.                                                                   *)
(***************************************************************************)
VARIABLES
    client,        \* ops_server.client: "present", or "absent" when from_env() failed
                   \* ("unstarted" until the tool server's module has run)
    running,       \* the containers the runtime lists, in its order
    restarted,     \* containers the runtime was made to restart
    sessions,      \* session_service: (user id, session id) -> the user messages so far
    served,        \* per handler: requests it has accepted
    pc,            \* per handler: the turn's state
    req,           \* per handler: the request being served
    nCalls,        \* per handler: tool calls made in this turn
    pending,       \* per handler: the tool call awaited
    lastResult,    \* per handler: the last tool result of this turn
    advised,       \* per handler: containers consult_sre_expert advised restarting, this turn
    policyFailed,  \* per handler: a policy call of this turn raised
    final_response,\* per handler: the text accumulated from the turn's events
    reply,         \* per handler: the HTTP reply to its last request
    file,          \* modules/brain_compiled.json: whether it exists, and its content
    jobPc,         \* the calibration job: where compile() is
    jobIdx,        \* the calibration job: the training example it is at
    demos,         \* the calibration job: the demonstrations kept so far
    compiles,      \* runs of the calibration job so far
    fileAtStart,   \* the file as it was when the current run of the job began
    loadPc,        \* the serving process: where load_production_weights is
    loads,         \* starts of a serving process so far
    sawFile,       \* the file as it was when os.path.exists looked
    observed,      \* what load read from the file
    brain,         \* brain_instance: the demonstrations it holds
    metric         \* the optimizer's metric: an example, the predictions to score, the scores

orchVars == <<client, running, restarted, sessions, served, pc, req, nCalls, pending,
              lastResult, advised, policyFailed, final_response, reply>>

calibVars == <<file, jobPc, jobIdx, demos, compiles, fileAtStart, loadPc, loads, sawFile,
               observed, brain, metric>>

vars == <<orchVars, calibVars>>

TurnStates == {"ToolSelection", "GatewayCall", "PolicyCall", "ResponseReady"}

OrchInit ==
    /\ client = "unstarted"
    /\ running = << >>
    /\ restarted = {}
    /\ sessions = << >>
    /\ served = [h \in Handlers |-> 0]
    /\ pc = [h \in Handlers |-> "AwaitingInput"]
    /\ req = [h \in Handlers |-> NoRequest]
    /\ nCalls = [h \in Handlers |-> 0]
    /\ pending = [h \in Handlers |-> NoCall]
    /\ lastResult = [h \in Handlers |-> NoResult]
    /\ advised = [h \in Handlers |-> {}]
    /\ policyFailed = [h \in Handlers |-> FALSE]
    /\ final_response = [h \in Handlers |-> ""]
    /\ reply = [h \in Handlers |-> NoReply]

JobInit ==
    /\ file = NoFile
    /\ jobPc = "idle"
    /\ jobIdx = 1
    /\ demos = << >>
    /\ compiles = 0
    /\ fileAtStart = NoFile
    /\ loadPc = "idle"
    /\ loads = 0
    /\ sawFile = NoFile
    /\ observed = NothingRead
    /\ brain = ZeroShot

CalibInit == JobInit /\ metric = NoMetric

Init == OrchInit /\ CalibInit

(***************************************************************************)
(* POST /analyze (analyze_incident) up to the first suspension of the turn: *)
(* the session is created or reused, the Runner is built and run_async      *)
(* appends the user's message to the session.  An exception on the way      *)
(* reaches the handler's outer except and becomes an HTTP 500.              *)
(***************************************************************************)
TotalServed == served["h1"] + served["h2"]

Analyze(h, request) ==
    /\ UNCHANGED calibVars
    /\ pc[h] = "AwaitingInput"
    /\ TotalServed < MaxRequests
    /\ served' = [served EXCEPT ![h] = @ + 1]
    /\ req' = [req EXCEPT ![h] = request]
    /\ nCalls' = [nCalls EXCEPT ![h] = 0]
    /\ pending' = [pending EXCEPT ![h] = NoCall]
    /\ lastResult' = [lastResult EXCEPT ![h] = NoResult]
    /\ advised' = [advised EXCEPT ![h] = {}]
    /\ policyFailed' = [policyFailed EXCEPT ![h] = FALSE]
    /\ final_response' = [final_response EXCEPT ![h] = ""]
    /\ LET e == EnsureSession(sessions, KeyOf(request)) IN
       IF e.kind = "raise"
       THEN /\ sessions' = e.store
            /\ reply' = [reply EXCEPT ![h] = Failure("Session already exists")]
            /\ pc' = pc
       ELSE /\ sessions' = [e.store EXCEPT ![KeyOf(request)] = Append(@, request.query)]
            /\ reply' = [reply EXCEPT ![h] = NoReply]
            /\ pc' = [pc EXCEPT ![h] = "ToolSelection"]
    /\ UNCHANGED <<client, running, restarted>>

\* the tool server starts (ops_server.py, module level): docker.from_env() in a
\* try/except that leaves client = None when the daemon cannot be reached
OpsServerStart(daemonUp, containers) ==
    /\ client = "unstarted"
    /\ client' = IF daemonUp THEN "present" ELSE "absent"
    /\ running' = IF daemonUp THEN containers ELSE << >>
    /\ UNCHANGED <<restarted, sessions, served, pc, req, nCalls, pending, lastResult, advised,
                   policyFailed, final_response, reply>>
    /\ UNCHANGED calibVars

\* the agent's model may ask for a tool while the turn is in ToolSelection
CanCallTool(h) == pc[h] = "ToolSelection" /\ nCalls[h] < MaxToolCalls

\* the agent's model asks for one of the three Docker tools
SelectGatewayCall(h, call) ==
    /\ UNCHANGED calibVars
    /\ CanCallTool(h)
    /\ pc' = [pc EXCEPT ![h] = "GatewayCall"]
    /\ pending' = [pending EXCEPT ![h] = call]
    /\ nCalls' = [nCalls EXCEPT ![h] = @ + 1]
    /\ lastResult' = [lastResult EXCEPT ![h] = NoResult]
    /\ UNCHANGED <<client, running, restarted, sessions, served, req, advised,
                   policyFailed, final_response, reply>>

\* the agent's model asks for consult_sre_expert
SelectPolicyCall(h, call) ==
    /\ UNCHANGED calibVars
    /\ CanCallTool(h)
    /\ pc' = [pc EXCEPT ![h] = "PolicyCall"]
    /\ pending' = [pending EXCEPT ![h] = call]
    /\ nCalls' = [nCalls EXCEPT ![h] = @ + 1]
    /\ lastResult' = [lastResult EXCEPT ![h] = NoResult]
    /\ UNCHANGED <<client, running, restarted, sessions, served, req, advised,
                   policyFailed, final_response, reply>>

\* the tool server runs the pending Docker tool and answers
GatewayResult(call, fault, content) ==
    IF call.tool = "list_active_containers"
    THEN ToolResult(call.tool, call.container, list_active_containers(client, running, fault))
    ELSE IF call.tool = "get_container_logs"
    THEN ToolResult(call.tool, call.container,
                    get_container_logs(client, call.container, call.tail, running, fault, content))
    ELSE ToolResult(call.tool, call.container,
                    restart_service(client, call.container, running, fault))

GatewayReturn(h, fault, content) ==
    /\ UNCHANGED calibVars
    /\ pc[h] = "GatewayCall"
    /\ client # "unstarted"
    /\ LET r == GatewayResult(pending[h], fault, content) IN
       /\ lastResult' = [lastResult EXCEPT ![h] = r]
       /\ restarted' = IF InSeq("restart", r.runtime) /\ fault # "op"
                       THEN restarted \cup {pending[h].container} ELSE restarted
    /\ pending' = [pending EXCEPT ![h] = NoCall]
    /\ pc' = [pc EXCEPT ![h] = "ToolSelection"]
    /\ UNCHANGED <<client, running, sessions, served, req, nCalls, advised, policyFailed,
                   final_response, reply>>

\* consult_sre_expert runs; an exception it lets through ends run_async and reaches
\* the handler's except, which answers HTTP 500
PolicyReturn(h, lm) ==
    /\ UNCHANGED calibVars
    /\ pc[h] = "PolicyCall"
    /\ LET r == consult_sre_expert(pending[h].container, pending[h].logs, lm) IN
       /\ policyFailed' = [policyFailed EXCEPT ![h] = (lm.kind = "raise")]
       /\ IF r.kind = "raise"
          THEN /\ reply' = [reply EXCEPT ![h] = Failure(r.text)]
               /\ pc' = [pc EXCEPT ![h] = "AwaitingInput"]
               /\ UNCHANGED <<lastResult, advised>>
          ELSE /\ lastResult' = [lastResult EXCEPT ![h] = r]
               /\ advised' = [advised EXCEPT ![h] =
                     IF r.decision.recommended_action = "restart_service"
                     THEN @ \cup {r.container} ELSE @]
               /\ pc' = [pc EXCEPT ![h] = "ToolSelection"]
               /\ reply' = reply
    /\ pending' = [pending EXCEPT ![h] = NoCall]
    /\ UNCHANGED <<client, running, restarted, sessions, served, req, nCalls, final_response>>

\* the agent's model answers with text and no tool call: the final event
FinalResponse(h) ==
    /\ UNCHANGED calibVars
    /\ pc[h] = "ToolSelection"
    /\ final_response' = [final_response EXCEPT ![h] = @ \o FinalText]
    /\ pc' = [pc EXCEPT ![h] = "ResponseReady"]
    /\ UNCHANGED <<client, running, restarted, sessions, served, req, nCalls, pending,
                   lastResult, advised, policyFailed, reply>>

\* the agent's own model call fails: run_async raises into the handler's except
AgentModelFails(h) ==
    /\ UNCHANGED calibVars
    /\ pc[h] = "ToolSelection"
    /\ reply' = [reply EXCEPT ![h] = Failure("agent model call failed")]
    /\ pc' = [pc EXCEPT ![h] = "AwaitingInput"]
    /\ UNCHANGED <<client, running, restarted, sessions, served, req, nCalls, pending,
                   lastResult, advised, policyFailed, final_response>>

\* a handler that runs the agent again after the final text instead of returning
FacadeReturn_rerun(h) ==
    /\ UNCHANGED calibVars
    /\ pc[h] = "ResponseReady"
    /\ pc' = [pc EXCEPT ![h] = "ToolSelection"]
    /\ UNCHANGED <<client, running, restarted, sessions, served, req, nCalls, pending,
                   lastResult, advised, policyFailed, final_response, reply>>

\* run_async is exhausted: the handler returns the accumulated text
FacadeReturn(h) ==
    /\ UNCHANGED calibVars
    /\ pc[h] = "ResponseReady"
    /\ reply' = [reply EXCEPT ![h] = Success(req[h], final_response[h])]
    /\ pc' = [pc EXCEPT ![h] = "AwaitingInput"]
    /\ UNCHANGED <<client, running, restarted, sessions, served, req, nCalls, pending,
                   lastResult, advised, policyFailed, final_response>>

\* requests served one at a time
SeqHandlers == {"h1"}

RunningLists == {<< >>, <<"chaos-monkey">>}

Next ==
    \/ \E daemonUp \in BOOLEAN, containers \in RunningLists :
          OpsServerStart(daemonUp, containers)
    \/ \E h \in SeqHandlers, request \in Requests : Analyze(h, request)
    \/ \E h \in SeqHandlers, call \in GatewayCalls : SelectGatewayCall(h, call)
    \/ \E h \in SeqHandlers, call \in PolicyCalls : SelectPolicyCall(h, call)
    \/ \E h \in SeqHandlers, fault \in Faults, content \in LogContents :
          GatewayReturn(h, fault, content)
    \/ \E h \in SeqHandlers, lm \in LMAnswers : PolicyReturn(h, lm)
    \/ \E h \in SeqHandlers : FinalResponse(h)
    \/ \E h \in SeqHandlers : AgentModelFails(h)
    \/ \E h \in SeqHandlers : FacadeReturn(h)

Spec == Init /\ [][Next]_vars

(***************************************************************************)
(* Concurrent requests: the server is one asyncio process, and a handler    *)
(* suspended in run_async (awaiting a model or a tool) lets another         *)
(* request's handler run.  The same actions, for both handlers, over a      *)
(* narrower set of inputs.                                                  *)
(***************************************************************************)
ConcGatewayCalls ==
    {c \in GatewayCalls : c.tool # "list_active_containers" /\ c.container = "chaos-monkey"
                          /\ c.tail \in {0, 50}}
ConcPolicyCalls ==
    {c \in PolicyCalls : c.container = "chaos-monkey" /\ c.logs = JoinLines(RemoteFailureLogs)}
ConcAnswers ==
    {a \in LMAnswers : a.kind = "raise"
                       \/ (a.suggested_action = "escalate" /\ a.severity = "CRITICAL"
                           /\ a.root_cause = "Remote dependency down")}

ConcNext ==
    \/ \E daemonUp \in BOOLEAN : OpsServerStart(daemonUp, <<"chaos-monkey">>)
    \/ \E h \in Handlers, request \in Requests : Analyze(h, request)
    \/ \E h \in Handlers, call \in ConcGatewayCalls : SelectGatewayCall(h, call)
    \/ \E h \in Handlers, call \in ConcPolicyCalls : SelectPolicyCall(h, call)
    \/ \E h \in Handlers : GatewayReturn(h, "none", RemoteFailureLogs)
    \/ \E h \in Handlers, lm \in ConcAnswers : PolicyReturn(h, lm)
    \/ \E h \in Handlers : FinalResponse(h)
    \/ \E h \in Handlers : AgentModelFails(h)
    \/ \E h \in Handlers : FacadeReturn(h)

ConcSpec == Init /\ [][ConcNext]_vars

(***************************************************************************)
(* The calibration job, compile(): BootstrapFewShot goes through the         *)
(* training examples, asks the policy for a prediction on each and keeps     *)
(* those validate_answer accepts, up to max_bootstrapped_demos; the result   *)
(* is saved over modules/brain_compiled.json.  compile() catches nothing:    *)
(* an exception the optimizer lets through ends the job before the save.     *)
(***************************************************************************)
StartCompile ==
    /\ jobPc \in {"idle", "done", "failed"}
    /\ compiles < MaxCompiles
    /\ compiles' = compiles + 1
    /\ jobPc' = "bootstrap"
    /\ jobIdx' = 1
    /\ demos' = << >>
    /\ fileAtStart' = file
    /\ UNCHANGED <<file, loadPc, loads, sawFile, observed, brain>>
    /\ UNCHANGED <<orchVars, metric>>

BootstrapGoesOn == jobIdx <= Len(trainset) /\ Len(demos) < max_bootstrapped_demos

\* one training example: lm is the model's answer; fatal says whether the
\* optimizer lets a failed call through (it tolerates a number of them)
Bootstrap(lm, fatal) ==
    /\ jobPc = "bootstrap"
    /\ BootstrapGoesOn
    /\ IF lm.kind = "raise" /\ fatal
       THEN /\ jobPc' = "failed"
            /\ UNCHANGED <<jobIdx, demos>>
       ELSE /\ jobPc' = jobPc
            /\ jobIdx' = jobIdx + 1
            /\ demos' = IF lm.kind # "raise" /\ validate_answer(trainset[jobIdx], lm)
                        THEN Append(demos, Demo(trainset[jobIdx], lm))
                        ELSE demos
    /\ UNCHANGED <<file, compiles, fileAtStart, loadPc, loads, sawFile, observed, brain>>
    /\ UNCHANGED <<orchVars, metric>>

\* compiled_brain.save(save_path) opens the file for writing, which creates it
\* or empties it
SaveOpen ==
    /\ jobPc = "bootstrap"
    /\ ~BootstrapGoesOn
    /\ file' = [exists |-> TRUE, content |-> << >>]
    /\ jobPc' = "saving"
    /\ UNCHANGED <<jobIdx, demos, compiles, fileAtStart, loadPc, loads, sawFile, observed, brain>>
    /\ UNCHANGED <<orchVars, metric>>

\* the document goes out piece by piece; the job is done with the last one
SaveWrite ==
    /\ jobPc = "saving"
    /\ LET doc == Serialize(demos)
           n == Len(file.content) IN
       /\ file' = [exists |-> TRUE, content |-> Append(file.content, doc[n + 1])]
       /\ jobPc' = IF n + 1 = Len(doc) THEN "done" ELSE "saving"
    /\ UNCHANGED <<jobIdx, demos, compiles, fileAtStart, loadPc, loads, sawFile, observed, brain>>
    /\ UNCHANGED <<orchVars, metric>>

(***************************************************************************)
(* A serving process starts (agents/sentinel_agent.py, module level): a     *)
(* fresh SREBrain, then load_production_weights, which loads the file when  *)
(* os.path.exists says it is there and otherwise leaves the brain as it is. *)
(***************************************************************************)
\* load_production_weights with the file loaded whether it exists or not
ShouldLoad_always(f) == TRUE

ShouldLoad(f) == os_path_exists(f)

LoadStart ==
    /\ loadPc \in {"idle", "ready", "crashed"}
    /\ loads < MaxLoads
    /\ loads' = loads + 1
    /\ sawFile' = file
    /\ observed' = NothingRead
    /\ brain' = ZeroShot
    /\ loadPc' = IF ShouldLoad(file) THEN "loading" ELSE "ready"
    /\ UNCHANGED <<file, jobPc, jobIdx, demos, compiles, fileAtStart>>
    /\ UNCHANGED <<orchVars, metric>>

\* self.load(filepath): an exception here is not caught, and the import fails
LoadRead ==
    /\ loadPc = "loading"
    /\ observed' = [read |-> TRUE, content |-> file.content]
    /\ LET l == load(file) IN
       IF l.kind = "return"
       THEN brain' = l.brain /\ loadPc' = "ready"
       ELSE brain' = brain /\ loadPc' = "crashed"
    /\ UNCHANGED <<file, jobPc, jobIdx, demos, compiles, fileAtStart, loads, sawFile>>
    /\ UNCHANGED <<orchVars, metric>>

CalibNext ==
    \/ StartCompile
    \/ \E lm \in LMAnswers, fatal \in BOOLEAN : Bootstrap(lm, fatal)
    \/ SaveOpen
    \/ SaveWrite
    \/ LoadStart
    \/ LoadRead

CalibSpec == Init /\ [][CalibNext]_vars

(***************************************************************************)
(* The optimizer scoring predictions (modules/train_brain.py): it is built  *)
(* with metric=validate_answer and calls it with a training example and a   *)
(* prediction of the policy for that example.  Here one example and the     *)
(* predictions to score against it are given, and each call of the metric   *)
(* leaves its result.                                                       *)
(***************************************************************************)
MetricInit ==
    /\ OrchInit
    /\ JobInit
    /\ metric \in {[example |-> trainset[i], predictions |-> <<p, q>>, results |-> << >>] :
                      i \in 1..Len(trainset), p \in MetricPredictions, q \in MetricPredictions}

ScorePrediction ==
    /\ Len(metric.results) < Len(metric.predictions)
    /\ metric' = [metric EXCEPT !.results =
                     Append(@, validate_answer(metric.example,
                                               metric.predictions[Len(metric.results) + 1]))]
    /\ UNCHANGED <<file, jobPc, jobIdx, demos, compiles, fileAtStart, loadPc, loads, sawFile,
                   observed, brain>>
    /\ UNCHANGED orchVars

MetricNext == ScorePrediction

MetricSpec == MetricInit /\ [][MetricNext]_vars

\* the same, with the handler's return bound to happen once run_async is exhausted
\* (no await lies between the last event and the return statement)
FairSpec == Spec /\ \A h \in SeqHandlers : WF_vars(FacadeReturn(h))

(***************************************************************************)
(* Claims.                                                                  *)
(***************************************************************************)
GatewayTools == {"list_active_containers", "get_container_logs", "restart_service"}

\* C1: every Decision consult_sre_expert returns to the orchestrator has a
\* recommended_action among restart_service, escalate, ignore, none.
C1_RecommendedActionEnumerated ==
    \A h \in Handlers :
        (lastResult[h].tool = "consult_sre_expert" /\ lastResult[h].kind = "return")
            => lastResult[h].decision.recommended_action \in Actions

\* C2: no Docker tool raises: every result the orchestrator gets from one is a
\* returned string; with the client absent it is "Error: Docker unavailable." and
\* no runtime method was called; get_container_logs for a container the runtime
\* does not know returns "Error: Container '<name>' not found.".
C2_GatewayNeverRaises ==
    \A h \in Handlers :
        LET r == lastResult[h] IN
        r.tool \in GatewayTools =>
            /\ r.kind = "return"
            /\ r.text \in STRING
            /\ r.runtime = << >> <=> client = "absent"
            /\ client = "absent" => (r.text = "Error: Docker unavailable." /\ r.runtime = << >>)
            /\ (r.tool = "get_container_logs" /\ client = "present"
                /\ ~InSeq(r.container, running) /\ r.exc # "APIError")
                  => (r.exc = "NotFound"
                      /\ r.text = "Error: Container '" \o r.container \o "' not found.")

C2_Witness ==
    \E h \in Handlers :
        /\ lastResult[h].tool = "get_container_logs"
        /\ lastResult[h].exc = "NotFound"
        /\ lastResult[h].text = "Error: Container 'ghost' not found."

\* C3: a request whose (user id, session id) already has a session is not failed
\* by the duplicate create_session: its turn starts, and the session keeps the
\* turns it had, with the new message appended to them.
C3_DuplicateCreateIsNoOp ==
    [][\A h \in Handlers :
          (served'[h] = served[h] + 1 /\ KeyOf(req'[h]) \in DOMAIN sessions) =>
              LET k == KeyOf(req'[h]) IN
              /\ pc'[h] = "ToolSelection"
              /\ reply'[h] = NoReply
              /\ DOMAIN sessions' = DOMAIN sessions
              /\ sessions'[k] = Append(sessions[k], req'[h].query)
              /\ \A j \in DOMAIN sessions \ {k} : sessions'[j] = sessions[j]]_vars

C3_Witness ==
    \E h \in Handlers :
        /\ pc[h] = "ToolSelection"
        /\ nCalls[h] = 0
        /\ Len(sessions[KeyOf(req[h])]) >= 2

\* C4: no two turns on the same (user id, session id) are in progress at once.
C4_SingleWriter ==
    \A g, h \in Handlers :
        (g # h /\ pc[g] \in TurnStates /\ pc[h] \in TurnStates)
            => KeyOf(req[g]) # KeyOf(req[h])

\* C7: when the policy's model call raises, the request ends there with an
\* HTTP 500: no fallback Decision is handed to the orchestrator, the turn does
\* not go on (so nothing is retried), and the reply is not a success.
C7_PolicyFailurePropagates ==
    \A h \in Handlers :
        policyFailed[h] =>
            /\ pc[h] = "AwaitingInput"
            /\ reply[h].code = 500
            /\ reply[h].status # "success"
            /\ lastResult[h].tool # "consult_sre_expert"
            /\ pending[h] = NoCall

C7_Witness ==
    \E h \in Handlers : policyFailed[h] /\ reply[h].code = 500 /\ nCalls[h] = 1

\* C8: every restart_service call the tool server has run in a turn comes after
\* a consult_sre_expert result of that turn that recommended restart_service for
\* the same container.
C8_RestartOnlyWhenAdvised ==
    \A h \in Handlers :
        lastResult[h].tool = "restart_service" => lastResult[h].container \in advised[h]

\* C9: once the agent's model has given its final text (ResponseReady), no tool
\* is called in the rest of the turn, the turn can only go back to
\* AwaitingInput, and it does.
C9_NoToolAfterFinal ==
    /\ [][\A h \in Handlers :
            pc[h] = "ResponseReady" =>
                /\ pc'[h] \in {"ResponseReady", "AwaitingInput"}
                /\ nCalls'[h] = nCalls[h]
                /\ pending'[h] = pending[h]
                /\ lastResult'[h] = lastResult[h]
                /\ restarted' = restarted]_vars
    /\ \A h \in Handlers : (pc[h] = "ResponseReady") ~> (pc[h] = "AwaitingInput")

C9_Witness ==
    \E h \in Handlers :
        /\ pc[h] = "ResponseReady"
        /\ nCalls[h] >= 1
        /\ nCalls[h] < MaxToolCalls

\* C5: a load that runs while the job saves reads a whole document, the old
\* one or the new one, never a partly written one.
C5_AtomicReplace == observed.read => Parses(observed.content)

C11_ValidateAnswerFields ==
    \A i \in 1..Len(metric.results) :
        LET e == metric.example
            p == metric.predictions[i] IN
        /\ metric.results[i] <=>
              (e.severity = p.severity /\ e.suggested_action = p.suggested_action)
        /\ \A j \in 1..Len(metric.results) :
              LET q == metric.predictions[j] IN
              (p.severity = q.severity /\ p.suggested_action = q.suggested_action)
                  => (metric.results[i] <=> metric.results[j])

C11_Witness ==
    /\ Len(metric.results) = 2
    /\ metric.predictions[1].reasoning # metric.predictions[2].reasoning
    /\ metric.predictions[1].root_cause # metric.predictions[2].root_cause
    /\ metric.predictions[1].root_cause # metric.example.root_cause
    /\ metric.predictions[1].severity = metric.predictions[2].severity
    /\ metric.predictions[1].suggested_action = metric.predictions[2].suggested_action
    /\ metric.results[1]
    /\ metric.results[2]

====
